---- MODULE Spec2Model ----
(***************************************************************************)
(* Model of the Techmeme-to-Twitter pipeline.                              *)
(*                                                                         *)
(* Spec is what node does with each script file as it stands:              *)
(*   "part000" : src/unnamed/part_000 (fetch, then a ReferenceError in     *)
(*               extractAiNewsWithGemini; its postNewsToTwitter is never   *)
(*               called)                                                   *)
(*   "part001" : src/unnamed/part_001 (the current script)                 *)
(*   "index"   : src/index.js, which does not compile: its lines 569-988   *)
(*               declare again the constants of its lines 1-567            *)
(*                                                                         *)
(* SpecCopies runs the three copies of the pipeline functions that have an *)
(* intro and an outro, each with the main() that follows it in the text:   *)
(*   "part001" : src/unnamed/part_001                                      *)
(*   "index1"  : lines 1-567 of src/index.js taken as a file of their own  *)
(*   "index2"  : lines 568-988 of src/index.js taken as a file of their own*)
(* "index1" and "index2" say what the functions written in src/index.js do *)
(* when they are called; no run of src/index.js itself gets that far.      *)
(*                                                                         *)
(* A run is one execution of main().  Every external call (HTTP fetch,     *)
(* file-system call, upload, generative call, tweet, remote delete) and    *)
(* every pacing delay takes two steps: issue starts it and puts it into    *)
(* pending, the action named after it ends it, takes it out of pending and *)
(* runs the synchronous code that follows the await up to the next one.    *)
(*                                                                         *)
(* JavaScript values are tagged records: [t |-> "undefined"],              *)
(* [t |-> "string", v |-> <<chars>>], [t |-> "array", v |-> <<elems>>],    *)
(* [t |-> "object", ...].  A string is a sequence of one-character strings.*)
(***************************************************************************)
EXTENDS Integers, Sequences, FiniteSets, TLC

VARIABLES
    variant,          \* which script file or copy is running
    pc,               \* "load", "start", the await main() is suspended at, or "exited"
    exitCode,         \* "none" while running, then 0 or 1
    calls,            \* external calls issued so far, in order
    tempFile,         \* TRUE iff the local temporary file exists
    artifact,         \* TRUE iff the uploaded file exists at the file API
    fileName,         \* part_001's module variable fileName ("" = not uploaded)
    response,         \* what the generative call produced in this run
    aiNews,           \* value returned by extractAiNewsWithGemini
    i,                \* loop index of postNewsToTwitter (0-based)
    previousTweetId,  \* postNewsToTwitter's previousTweetId (NoId = null)
    hasError,         \* postNewsToTwitter's hasError
    tweets,           \* twitterUserClient.v2.tweet calls so far, in order
    env,              \* process.env: the five credential variables
    thrown,           \* the error main's catch block received (NoError if none)
    timers,           \* pacing delays that have elapsed so far, in order
    pending,          \* calls and delays that were started and have not ended
    linkIn,           \* normalisation harness: link before
    linkOut,          \* normalisation harness: link after
    tagsIn,           \* normalisation harness: item.hashtags before
    tagsOut,          \* normalisation harness: item.hashtags after
    textIn,           \* cleaning harness: response.text
    textOut,          \* cleaning harness: result of cleaning and parsing
    listing,          \* deleteAllFiles: the pages of files the file API lists
    page,             \* deleteAllFiles: number of the page being visited
    fileIdx,          \* deleteAllFiles: position in the page of the next file
    log,              \* hello.js: what console.log has written so far
    envIdx            \* hello.js: position in envs of the next variable

toolVars == <<listing, page, fileIdx, log, envIdx>>

harnessVars == <<linkIn, linkOut, tagsIn, tagsOut, textIn, textOut, toolVars>>

pipelineVars == <<variant, pc, exitCode, calls, tempFile, artifact, fileName,
                  response, aiNews, i, previousTweetId, hasError, tweets, env,
                  thrown, timers, pending>>

vars == <<pipelineVars, harnessVars>>

-----------------------------------------------------------------------------
(* Bounds *)

MaxItems == 4        \* longest news_items array a response carries
MaxLinkLen == 4      \* longest link fed to the normalisation harness
MaxTags == 3         \* longest hashtags array fed to the normalisation harness
MaxTagLen == 2       \* longest hashtag in such an array
MaxPad == 1          \* longest run of whitespace around a part of a response text

(* Program constants *)

TWEET_LIMIT == 3

TECHMEME_ORIGIN ==
    <<"h","t","t","p","s",":","/","/","t","e","c","h","m","e","m","e",".","c","o","m">>

\* the script files, each started with node as it stands
Variants == {"part000", "part001", "index"}

\* the copies of the pipeline with intro and outro, each taken as a file of
\* its own: part_001 and the two scripts src/index.js is made of
Copies == {"part001", "index1", "index2"}

NoId == 0

-----------------------------------------------------------------------------
(* JavaScript values *)

Undefined == [t |-> "undefined"]
Str(s) == [t |-> "string", v |-> s]
Arr(a) == [t |-> "array", v |-> a]

\* JavaScript truthiness of the values that occur here
Truthy(x) ==
    CASE x.t = "undefined" -> FALSE
      [] x.t = "string"    -> x.v # <<>>
      [] OTHER             -> TRUE

isArray(x) == x.t = "array"

\* String.prototype.startsWith
startsWith(s, prefix) ==
    /\ Len(s) >= Len(prefix)
    /\ SubSeq(s, 1, Len(prefix)) = prefix

\* Array.prototype.slice(0, n)
slice0(a, n) == SubSeq(a, 1, IF Len(a) < n THEN Len(a) ELSE n)

\* String.prototype.endsWith
endsWith(s, suffix) ==
    /\ Len(s) >= Len(suffix)
    /\ SubSeq(s, Len(s) - Len(suffix) + 1, Len(s)) = suffix

\* characters String.prototype.trim removes; "nbsp" stands for U+00A0, which
\* trim removes and JSON.parse does not accept as whitespace
JsWhitespace == {"\n", "nbsp"}

JsonWhitespace == {"\n"}

RECURSIVE dropLeading(_, _)
dropLeading(s, ws) ==
    IF s # <<>> /\ Head(s) \in ws THEN dropLeading(Tail(s), ws) ELSE s

RECURSIVE dropTrailing(_, _)
dropTrailing(s, ws) ==
    IF s # <<>> /\ s[Len(s)] \in ws
    THEN dropTrailing(SubSeq(s, 1, Len(s) - 1), ws)
    ELSE s

\* String.prototype.trim
trim(s) == dropTrailing(dropLeading(s, JsWhitespace), JsWhitespace)

-----------------------------------------------------------------------------
(* Inputs: what the generative service may answer *)

S_T == <<"T">>
S_U == <<"U">>
S_d == <<"d">>
S_I == <<"I">>
S_O == <<"O">>
S_W == <<"W">>

Item(title, desc, link, hashtags) ==
    [t |-> "object", title |-> title, short_description |-> desc,
     link |-> link, hashtags |-> hashtags]

\* a complete item with a relative link and a hashtag lacking '#'
ItemRel == Item(Str(S_T), Str(S_d), Str(<<"/", "a">>), Arr(<< <<"x">> >>))
\* a complete item with an absolute link and mixed hashtags
ItemAbs == Item(Str(S_U), Str(S_d), Str(<<"h", ":", "/", "/", "b">>),
                Arr(<< <<"#", "y">>, <<"z">> >>))
\* an item without hashtags and without description
ItemNoTags == Item(Str(S_T), Undefined, Str(<<"/", "c">>), Undefined)
\* an item without title and without link
ItemNoTitle == Item(Undefined, Str(S_d), Undefined, Arr(<< <<"#", "w">> >>))

\* an item whose hashtags field is a string instead of an array
ItemTagsNotArray == Item(Str(S_W), Str(S_d), Str(<<"/", "e">>), Str(<<"x">>))


\* a complete item whose description alone fills a tweet
ItemLong == Item(Str(S_T), Str([j \in 1..280 |-> "d"]), Str(<<"/", "f">>),
                 Arr(<< <<"#", "x">> >>))

ItemPool ==
    {ItemRel, ItemAbs, ItemNoTags, ItemNoTitle, ItemTagsNotArray, ItemLong}

SeqUpTo(S, n) == UNION {[1..k -> S] : k \in 0..n}

TextValues == {Undefined, Str(<<>>), Str(S_I)}

\* response.text after JSON.parse, or the reason there is no parsed value
Responses ==
    {[kind |-> "callFails"], [kind |-> "unparseable"]}
    \cup
    {[kind |-> "parsed", intro |-> a, outro |-> Str(S_O), news_items |-> n] :
        a \in TextValues,
        n \in {Undefined} \cup {Arr(q) : q \in SeqUpTo(ItemPool, MaxItems)}}
    \cup
    {[kind |-> "parsed", intro |-> Str(S_I), outro |-> o, news_items |-> n] :
        o \in TextValues,
        n \in {Undefined, Arr(<<>>), Arr(<<ItemRel>>)}}

-----------------------------------------------------------------------------
(* extractAiNewsWithGemini: cleaning and parsing response.text *)

\* "backtick" stands for the character U+0060
FenceJson == <<"backtick", "backtick", "backtick", "j", "s", "o", "n">>
Fence == <<"backtick", "backtick", "backtick">>

\* faulty variant: only the three backticks of the leading marker are removed
cleanResponseTextShortFence(text) ==
    LET t1 == trim(text)
        t2 == IF startsWith(t1, FenceJson) THEN SubSeq(t1, 4, Len(t1)) ELSE t1
        t3 == IF endsWith(t2, Fence) THEN SubSeq(t2, 1, Len(t2) - 3) ELSE t2
    IN  trim(t3)

\* let cleanedText = text.trim();
\* if (cleanedText.startsWith(FenceJson)) cleanedText = cleanedText.substring(7);
\* if (cleanedText.endsWith(Fence)) cleanedText = cleanedText.substring(0, length - 3);
\* cleanedText = cleanedText.trim();
cleanResponseText(text) ==
    LET t1 == trim(text)
        t2 == IF startsWith(t1, FenceJson) THEN SubSeq(t1, 8, Len(t1)) ELSE t1
        t3 == IF endsWith(t2, Fence) THEN SubSeq(t2, 1, Len(t2) - 3) ELSE t2
    IN  trim(t3)

\* texts that are one JSON value: {}, a string of three backticks, 1
JsonBodies ==
    { <<"{", "}">>, <<"\"", "backtick", "backtick", "backtick", "\"">>, <<"1">> }

\* texts that are no JSON value: {  and  } followed by three backticks
NonJsonBodies == { <<"{">>, <<"}", "backtick", "backtick", "backtick">> }

\* JSON.parse: whitespace around the value is skipped; the value is
\* represented by its text; anything else is a SyntaxError
jsonParse(text) ==
    LET body == dropTrailing(dropLeading(text, JsonWhitespace), JsonWhitespace)
    IN  IF body \in JsonBodies
        THEN [t |-> "json", v |-> body]
        ELSE [t |-> "SyntaxError"]

-----------------------------------------------------------------------------
(* extractAiNewsWithGemini: response handling *)

\* faulty variant: the origin is prefixed to every non-empty link
normalizeLinkEveryLink(link) ==
    IF Truthy(link) THEN Str(TECHMEME_ORIGIN \o link.v) ELSE link

\* if (item.link && item.link.startsWith("/")) item.link = `https://techmeme.com${item.link}`
normalizeLink(link) ==
    IF Truthy(link) /\ startsWith(link.v, <<"/">>)
    THEN Str(TECHMEME_ORIGIN \o link.v)
    ELSE link

\* faulty variant: '#' is prefixed without looking at the hashtag
normalizeHashtagAlways(hashtag) == <<"#">> \o hashtag

\* (hashtag) => hashtag.startsWith("#") ? hashtag : `#${hashtag}`
normalizeHashtag(hashtag) ==
    IF startsWith(hashtag, <<"#">>) THEN hashtag ELSE <<"#">> \o hashtag

\* item.hashtags?.map(...) || []      (part_001 only)
normalizeHashtags(hashtags) ==
    IF hashtags.t = "undefined"
    THEN Arr(<<>>)
    ELSE Arr([k \in 1..Len(hashtags.v) |-> normalizeHashtag(hashtags.v[k])])

\* body of the forEach callback for one item
normalizeItem(v, item) ==
    IF v = "part001"
    THEN [item EXCEPT !.link = normalizeLink(item.link),
                      !.hashtags = normalizeHashtags(item.hashtags)]
    ELSE [item EXCEPT !.link = normalizeLink(item.link)]

\* item.hashtags?.map(...) throws a TypeError when hashtags is neither
\* undefined nor an array (a string has no map method)
hashtagsMapThrows(hashtags) == hashtags.t \notin {"undefined", "array"}

\* TRUE iff the forEach over the items throws (part_001 only: index.js does
\* not touch the hashtags there)
normalizeThrows(v, r) ==
    /\ v = "part001"
    /\ \E k \in 1..Len(r.news_items.v) : hashtagsMapThrows(r.news_items.v[k].hashtags)

\* part_001: newsItems = newsItems.slice(0, TWEET_LIMIT)
\* index.js: newsItems.slice(0, 3);  -- the result of slice is discarded
truncateItems(v, items) ==
    IF v = "part001" THEN slice0(items, TWEET_LIMIT) ELSE items

\* faulty variant: the outro is not checked
hasExpectedStructureNoOutro(r) ==
    /\ Truthy(r.intro)
    /\ isArray(r.news_items)

\* if (!aiNews.intro || !aiNews.outro || !Array.isArray(aiNews.news_items)) throw
hasExpectedStructure(r) ==
    /\ Truthy(r.intro)
    /\ Truthy(r.outro)
    /\ isArray(r.news_items)

\* TRUE iff the try block of extractAiNewsWithGemini throws before it
\* reaches the items
extractThrows(r) ==
    \/ r.kind = "callFails"
    \/ r.kind = "unparseable"
    \/ r.kind = "parsed" /\ ~hasExpectedStructure(r)

\* the bundle the try block returns when it does not throw
extractBundle(v, r) ==
    [t |-> "object", intro |-> r.intro, outro |-> r.outro,
     news_items |->
        truncateItems(v, [k \in 1..Len(r.news_items.v) |->
                             normalizeItem(v, r.news_items.v[k])])]

\* the catch block: part_001 and the second copy in index.js rethrow,
\* the first copy in index.js only logs, so the function returns undefined
extractRethrows(v) == v # "index1"

\* faulty variant: the length of news_items is not looked at
hasNewsIgnoresLength(a) == a.t = "object"

\* main: if (aiNews && aiNews.news_items.length > 0)
hasNews(a) == a.t = "object" /\ Len(a.news_items) > 0

-----------------------------------------------------------------------------
(* main: how a step ends *)

\* an Error object as main's catch block sees it: the function that threw it
\* and what made it throw
Error(by, cause) == [by |-> by, cause |-> cause]

NoError == Error("none", "none")

\* faulty variant: the catch block of main does not signal the failure
mainCatchExitZero ==
    /\ pc' = "exited"
    /\ exitCode' = 0

\* catch (error) { ...; process.exit(1); }   -- the process ends inside the
\* catch block, so a finally block that follows it never runs
mainCatch ==
    /\ pc' = "exited"
    /\ exitCode' = 1

\* the try block of main completed: part_001 goes on to its finally block
\* (await deleteFile(fileName)); the copies in index.js have nothing left
mainReturn ==
    IF variant = "part001"
    THEN pc' = "deleteFile" /\ exitCode' = exitCode
    ELSE pc' = "exited" /\ exitCode' = 0

-----------------------------------------------------------------------------
(* Start-up: compilation of the file, then the credential checks at module  *)
(* level, before main() is called                                           *)

\* node compiles the whole file before it runs its first statement.
\* src/index.js declares const axios, fs, path, ... at lines 3-23 and again
\* at lines 570-588 of the same scope: SyntaxError: Identifier 'axios' has
\* already been declared.  Every other text compiles.
compiles(v) == v # "index"

\* node <file>: an uncaught SyntaxError ends the process with code 1 before
\* any statement of the file has run
load ==
    /\ pc = "load"
    /\ IF compiles(variant)
       THEN pc' = "start" /\ exitCode' = exitCode /\ thrown' = thrown
       ELSE pc' = "exited" /\ exitCode' = 1 /\ thrown' = Error("node", "SyntaxError")
    /\ UNCHANGED <<variant, pending, timers, calls, tempFile, artifact, fileName, response,
                   aiNews, i, previousTweetId, hasError, tweets, env,
                   harnessVars>>

CredentialNames ==
    {"GEMINI_API_KEY", "TWITTER_API_KEY", "TWITTER_API_SECRET",
     "TWITTER_ACCESS_TOKEN", "TWITTER_ACCESS_TOKEN_SECRET"}

S_k == <<"k">>

\* a variable is unset, set to the empty string, or set to a value
CredentialValues == {Undefined, Str(<<>>), Str(S_k)}

Environments == [CredentialNames -> CredentialValues]

AllCredentials == [n \in CredentialNames |-> Str(S_k)]

\* faulty variant: only the Twitter credentials are checked
credentialsMissingTwitterOnly(e) ==
    \/ ~Truthy(e["TWITTER_API_KEY"])
    \/ ~Truthy(e["TWITTER_API_SECRET"])
    \/ ~Truthy(e["TWITTER_ACCESS_TOKEN"])
    \/ ~Truthy(e["TWITTER_ACCESS_TOKEN_SECRET"])

\* if (!GEMINI_API_KEY) process.exit(1);
\* if (!appKey || !appSecret || !accessToken || !accessSecret) process.exit(1);
credentialsMissing(e) ==
    \/ ~Truthy(e["GEMINI_API_KEY"])
    \/ ~Truthy(e["TWITTER_API_KEY"])
    \/ ~Truthy(e["TWITTER_API_SECRET"])
    \/ ~Truthy(e["TWITTER_ACCESS_TOKEN"])
    \/ ~Truthy(e["TWITTER_ACCESS_TOKEN_SECRET"])

checkCredentials ==
    /\ pc = "start"
    /\ IF credentialsMissing(env)
       THEN pc' = "exited" /\ exitCode' = 1
       ELSE pc' = "fetch" /\ exitCode' = exitCode
    /\ UNCHANGED <<variant, pending, timers, thrown, calls, tempFile, artifact,
                   fileName, response,
                   aiNews, i, previousTweetId, hasError, tweets, env,
                   harnessVars>>

-----------------------------------------------------------------------------
(* External calls as the run records them *)

Call(op, result) == [op |-> op, result |-> result]

Outcome(ok) == IF ok THEN "ok" ELSE "failed"

callOk(c) == c.result \in {"ok", "status200"}

\* the call or timer that the await at position p waits for
Awaited(p) ==
    CASE p \in {"delayIntro", "delayItem", "delayOutro"} -> "delay"
      [] p \in {"tweetIntro", "tweetItem", "tweetOutro"} -> "tweet"
      [] p = "cleanupAccess" -> "access"
      [] p = "cleanupUnlink" -> "unlink"
      [] p \in {"deleteFile", "deleteListed"} -> "delete"
      [] OTHER -> p

\* the positions of main() and of deleteAllFiles() at which a call or timer
\* is started and awaited
AwaitPositions ==
    {"fetch", "writeFile", "upload", "unlink", "cleanupAccess", "cleanupUnlink",
     "generate", "tweetIntro", "delayIntro", "tweetItem", "delayItem",
     "delayOutro", "tweetOutro", "deleteFile",
     "list", "deleteListed", "nextPage"}

\* the promise main() is suspended on settles: the call or timer op, which
\* was started before, has ended
settle(op) ==
    /\ op \in pending
    /\ pending' = pending \ {op}

-----------------------------------------------------------------------------
(* fetchHtml *)

\* axios resolves with status 200, resolves with another status (the function
\* then throws itself), or rejects
FetchOutcomes == {"status200", "otherStatus", "transportError"}

\* faulty variant: the error is logged and not rethrown
fetchHtmlSwallows ==
    /\ pc = "fetch"
    /\ \E outcome \in FetchOutcomes :
          calls' = Append(calls, Call("fetch", outcome))
    /\ pc' = "writeFile"
    /\ settle(Awaited(pc))
    /\ UNCHANGED <<variant, timers, thrown, exitCode, tempFile, artifact, fileName, response,
                   aiNews, i, previousTweetId, hasError, tweets, env, harnessVars>>

\* part_000: extractAiNewsWithGemini(html) builds the argument of
\* model.generateContent with type: Type.OBJECT (line 94); Type is declared
\* nowhere in part_000, so a ReferenceError is thrown before the call is
\* issued; the catch block logs and rethrows it (194-200) and main's catch
\* block ends the process (286-292).  Nothing of the function after line 94
\* and nothing of postNewsToTwitter (its call at line 280 is commented out)
\* ever runs.
extractAiNewsWithGemini_part000 ==
    /\ mainCatch
    /\ thrown' = Error("extractAiNewsWithGemini", "ReferenceError")

\* main after fetchHtml returned the page, up to its next await: part_000
\* calls extractAiNewsWithGemini(html), the other scripts call
\* uploadHtmlToGemini(html), which awaits fs.writeFile
afterFetch ==
    IF variant = "part000"
    THEN extractAiNewsWithGemini_part000
    ELSE pc' = "writeFile" /\ exitCode' = exitCode /\ thrown' = thrown

fetchHtml ==
    /\ pc = "fetch"
    /\ \E outcome \in FetchOutcomes :
          /\ calls' = Append(calls, Call("fetch", outcome))
          /\ IF outcome = "status200"
             THEN afterFetch
             ELSE mainCatch /\ thrown' = Error("fetchHtml", outcome)
    /\ settle(Awaited(pc))
    /\ UNCHANGED <<variant, timers, tempFile, artifact, fileName, response, aiNews, i,
                   previousTweetId, hasError, tweets, env, harnessVars>>

-----------------------------------------------------------------------------
(* uploadHtmlToGemini *)

\* await fs.writeFile(tempFilePath, htmlContent)
uploadHtmlToGemini_writeFile ==
    /\ pc = "writeFile"
    /\ \E ok \in BOOLEAN, partial \in BOOLEAN :
          /\ calls' = Append(calls, Call("writeFile", Outcome(ok)))
          /\ IF ok
             THEN tempFile' = TRUE /\ pc' = "upload"
             ELSE tempFile' = partial /\ pc' = "cleanupAccess"
    /\ settle(Awaited(pc))
    /\ UNCHANGED <<variant, timers, thrown, exitCode, artifact, fileName, response,
                   aiNews, i, previousTweetId, hasError, tweets, env, harnessVars>>

\* uploadResult.name: the name the file API gives the artifact
uploadResultName == "files/1"

\* faulty variant: fileName is set to the display name passed to the upload
uploadHtmlToGemini_uploadKeepsDisplayName ==
    /\ pc = "upload"
    /\ \E ok \in BOOLEAN :
          /\ calls' = Append(calls, Call("upload", Outcome(ok)))
          /\ IF ok
             THEN /\ artifact' = TRUE
                  /\ fileName' = IF variant = "part001" THEN "techmeme.html"
                                                        ELSE fileName
                  /\ pc' = "unlink"
             ELSE /\ UNCHANGED <<artifact, fileName>>
                  /\ pc' = "cleanupAccess"
    /\ settle(Awaited(pc))
    /\ UNCHANGED <<variant, timers, thrown, exitCode, tempFile, response, aiNews, i,
                   previousTweetId, hasError, tweets, env, harnessVars>>

\* await ai.files.upload(...); part_001 then sets fileName = uploadResult.name
uploadHtmlToGemini_upload ==
    /\ pc = "upload"
    /\ \E ok \in BOOLEAN :
          /\ calls' = Append(calls, Call("upload", Outcome(ok)))
          /\ IF ok
             THEN /\ artifact' = TRUE
                  /\ fileName' = IF variant = "part001" THEN uploadResultName
                                                        ELSE fileName
                  /\ pc' = "unlink"
             ELSE /\ UNCHANGED <<artifact, fileName>>
                  /\ pc' = "cleanupAccess"
    /\ settle(Awaited(pc))
    /\ UNCHANGED <<variant, timers, thrown, exitCode, tempFile, response, aiNews, i,
                   previousTweetId, hasError, tweets, env, harnessVars>>

\* await fs.unlink(tempFilePath); return uploadResult
uploadHtmlToGemini_unlink ==
    /\ pc = "unlink"
    /\ \E ok \in BOOLEAN :
          /\ calls' = Append(calls, Call("unlink", Outcome(ok)))
          /\ IF ok
             THEN tempFile' = FALSE /\ pc' = "generate"
             ELSE tempFile' = tempFile /\ pc' = "cleanupAccess"
    /\ settle(Awaited(pc))
    /\ UNCHANGED <<variant, timers, thrown, exitCode, artifact, fileName, response,
                   aiNews, i, previousTweetId, hasError, tweets, env, harnessVars>>

\* the call of the try block that rejected and led into the catch block
stagingFailure ==
    SelectSeq(calls, LAMBDA c : c.op \in {"writeFile", "upload", "unlink"}
                                   /\ ~callOk(c))[1].op

\* throw new Error(`Failed to upload file to Gemini File API: ${error.message}`)
uploadError == Error("Failed to upload file", stagingFailure)

\* faulty variant: the catch block throws without any cleanup
uploadHtmlToGemini_noCleanup ==
    /\ pc = "cleanupAccess"
    /\ mainCatch
    /\ UNCHANGED <<variant, pending, timers, thrown, calls, tempFile, artifact,
                   fileName, response,
                   aiNews, i, previousTweetId, hasError, tweets, env, harnessVars>>

\* catch block: await fs.access(tempFilePath); it rejects when the file does
\* not exist and may reject although it exists; when it rejects, the inner
\* catch logs and the function throws "Failed to upload file ..."
uploadHtmlToGemini_cleanupAccess ==
    /\ pc = "cleanupAccess"
    /\ \E ok \in {b \in BOOLEAN : b => tempFile} :
          /\ calls' = Append(calls, Call("access", Outcome(ok)))
          /\ IF ok
             THEN pc' = "cleanupUnlink" /\ exitCode' = exitCode /\ thrown' = thrown
             ELSE mainCatch /\ thrown' = uploadError
    /\ settle(Awaited(pc))
    /\ UNCHANGED <<variant, timers, tempFile, artifact, fileName, response,
                   aiNews, i, previousTweetId, hasError, tweets, env, harnessVars>>

\* faulty variant: an error of the cleanup unlink is not swallowed
uploadHtmlToGemini_cleanupUnlinkThrows ==
    /\ pc = "cleanupUnlink"
    /\ \E ok \in BOOLEAN :
          /\ calls' = Append(calls, Call("unlink", Outcome(ok)))
          /\ tempFile' = IF ok THEN FALSE ELSE tempFile
          /\ thrown' = IF ok THEN uploadError ELSE Error("fs.unlink", "unlink")
    /\ mainCatch
    /\ settle(Awaited(pc))
    /\ UNCHANGED <<variant, timers, artifact, fileName, response, aiNews, i,
                   previousTweetId, hasError, tweets, env, harnessVars>>

\* catch block: await fs.unlink(tempFilePath); then throw in either case
uploadHtmlToGemini_cleanupUnlink ==
    /\ pc = "cleanupUnlink"
    /\ \E ok \in BOOLEAN :
          /\ calls' = Append(calls, Call("unlink", Outcome(ok)))
          /\ tempFile' = IF ok THEN FALSE ELSE tempFile
    /\ mainCatch
    /\ thrown' = uploadError
    /\ settle(Awaited(pc))
    /\ UNCHANGED <<variant, timers, artifact, fileName, response, aiNews, i,
                   previousTweetId, hasError, tweets, env, harnessVars>>

-----------------------------------------------------------------------------
(* extractAiNewsWithGemini, and main up to the next await *)

extractAiNewsWithGemini ==
    /\ pc = "generate"
    /\ \E r \in Responses :
          /\ response' = r
          /\ calls' = Append(calls, Call("generate", Outcome(r.kind # "callFails")))
          /\ IF extractThrows(r) \/ normalizeThrows(variant, r)
             THEN /\ aiNews' = Undefined
                  /\ IF extractRethrows(variant)
                     THEN /\ mainCatch
                          /\ thrown' = Error("extractAiNewsWithGemini", r.kind)
                     ELSE mainReturn /\ thrown' = thrown
             ELSE /\ aiNews' = extractBundle(variant, r)
                  /\ thrown' = thrown
                  /\ IF hasNews(extractBundle(variant, r))
                     THEN pc' = "tweetIntro" /\ exitCode' = exitCode
                     ELSE mainReturn
    /\ settle(Awaited(pc))
    /\ UNCHANGED <<variant, timers, tempFile, artifact, fileName, i, previousTweetId,
                   hasError, tweets, env, harnessVars>>

-----------------------------------------------------------------------------
(* postNewsToTwitter *)

\* what a template literal or += makes of a value: undefined becomes
\* the text "undefined", a string stays as it is
toStr(x) ==
    IF x.t = "undefined"
    THEN <<"u", "n", "d", "e", "f", "i", "n", "e", "d">>
    ELSE x.v

\* Array.prototype.join on an array of strings
RECURSIVE join(_, _)
join(a, sep) ==
    IF Len(a) = 0 THEN <<>>
    ELSE IF Len(a) = 1 THEN a[1]
    ELSE a[1] \o sep \o join(Tail(a), sep)

UpperCase ==
    <<"A", "B", "C", "D", "E", "F", "G", "H", "I", "J", "K", "L", "M",
      "N", "O", "P", "Q", "R", "S", "T", "U", "V", "W", "X", "Y", "Z">>
LowerCase ==
    <<"a", "b", "c", "d", "e", "f", "g", "h", "i", "j", "k", "l", "m",
      "n", "o", "p", "q", "r", "s", "t", "u", "v", "w", "x", "y", "z">>
Digits == <<"0", "1", "2", "3", "4", "5", "6", "7", "8", "9">>

Range(q) == {q[k] : k \in 1..Len(q)}

indexOf(q, c) == CHOOSE k \in 1..Len(q) : q[k] = c

\* /[A-Za-z0-9]/
isAlnum(c) == c \in Range(UpperCase) \cup Range(LowerCase) \cup Range(Digits)

\* char.codePointAt(0) of an ASCII letter or digit
codePointAt(c) ==
    IF c \in Range(UpperCase) THEN 64 + indexOf(UpperCase, c)
    ELSE IF c \in Range(LowerCase) THEN 96 + indexOf(LowerCase, c)
    ELSE 47 + indexOf(Digits, c)

\* a UTF-16 code unit that is not an ASCII letter or digit, named by its value
unit(n) == ToString(n)

\* String.fromCodePoint: one code unit below 0x10000, a surrogate pair above
fromCodePoint(n) ==
    IF n < 65536
    THEN <<unit(n)>>
    ELSE <<unit(55296 + ((n - 65536) \div 1024)),
           unit(56320 + ((n - 65536) % 1024))>>

\* the code point translate() takes as the image of "A", of "a" and of "0":
\* the first copy in index.js has the mathematical bold characters
\* U+1D5D4, U+1D5EE and U+1D7CE in its source; in the second copy each of
\* these literals is a mis-decoded text whose first character is U+00F0
translateBase(v, c) ==
    IF v = "index2" THEN 240
    ELSE IF c \in Range(UpperCase) THEN 120276
    ELSE IF c \in Range(LowerCase) THEN 120302
    ELSE 120782

\* function translate(char) of index.js
translate(v, c) ==
    LET first == IF c \in Range(UpperCase) THEN 65
                 ELSE IF c \in Range(LowerCase) THEN 97 ELSE 48
        diff == translateBase(v, c) - first
    IN fromCodePoint(codePointAt(c) + diff)

\* title.replace(/[A-Za-z0-9]/g, translate)
RECURSIVE replaceAlnum(_, _)
replaceAlnum(v, str) ==
    IF str = <<>> THEN <<>>
    ELSE (IF isAlnum(Head(str)) THEN translate(v, Head(str)) ELSE <<Head(str)>>)
         \o replaceAlnum(v, Tail(str))

\* decimal digits of a natural number, as a template literal prints it
RECURSIVE decimal(_)
decimal(n) ==
    IF n < 10 THEN <<Digits[n + 1]>>
    ELSE decimal(n \div 10) \o <<Digits[(n % 10) + 1]>>

NL2 == <<"\n", "\n">>

\* `\n\n(${i + 1}/${aiNews.news_items.length})`, with idx = i + 1
threadSuffix(idx, n) == NL2 \o <<"(">> \o decimal(idx) \o <<"/">> \o decimal(n) \o <<")">>

\* let tweetText = ... of the loop, for the item at position idx of n items;
\* part_001 interpolates the title as it is, leaves out the link and has the
\* thread-position suffix commented out
itemText(v, item, idx, n) ==
    IF v = "part001"
    THEN toStr(item.title) \o NL2 \o toStr(item.short_description) \o NL2
         \o join(item.hashtags.v, <<" ">>)
    ELSE replaceAlnum(v, item.title.v) \o NL2 \o toStr(item.short_description)
         \o NL2 \o toStr(item.link) \o NL2 \o join(item.hashtags.v, <<" ">>)
         \o (IF n > 1 THEN threadSuffix(idx, n) ELSE <<>>)

INTRO_HASHTAGS ==
    <<"\n", "\n", "#", "A", "I", " ", "#", "A", "r", "t", "i", "f", "i", "c",
      "i", "a", "l", "I", "n", "t", "e", "l", "l", "i", "g", "e", "n", "c",
      "e", " ", "#", "M", "a", "c", "h", "i", "n", "e", "L", "e", "a", "r",
      "n", "i", "n", "g", " ", "#", "L", "L", "M", " ", "#", "G", "e", "n",
      "e", "r", "a", "t", "i", "v", "e", "A", "I", " ", "#", "O", "p", "e",
      "n", "A", "I", " ", "#", "A", "n", "t", "h", "r", "o", "p", "i", "c",
      " ", "#", "G", "o", "o", "g", "l", "e", "A", "I", " ", "#", "M", "e",
      "t", "a", "A", "I", " ", "#", "G", "e", "m", "i", "n", "i", " ", "#",
      "T", "e", "c", "h", "m", "e", "m", "e">>

OUTRO_MENTION ==
    <<"\n", "\n", "@", "A", "I", "_", "T", "e", "c", "h", "i", "e", "_", "A",
      "r", "u", "n">>

\* tweetText = aiNews.intro; tweetText += `\n\n#AI ...`
introText(a) == toStr(a.intro) \o INTRO_HASHTAGS

\* tweetText = aiNews.outro; index.js adds tweetText += `\n\n@AI_Techie_Arun`
outroText(v, a) ==
    IF v = "part001" THEN toStr(a.outro) ELSE toStr(a.outro) \o OUTRO_MENTION

\* if (tweetText.length > 280) console.warn(...)
warnsTooLong(text) == Len(text) > 280

\* faulty variant: the text is cut to the limit before it is posted
postedTextTruncated(text) == slice0(text, 280)

\* const postOptions = { text: tweetText }
postedText(text) == text

\* the tweetText the script has composed when it issues a tweet call
tweetText(kind, idx) ==
    CASE kind = "intro" -> introText(aiNews)
      [] kind = "outro" -> outroText(variant, aiNews)
      [] kind = "item" ->
            itemText(variant, aiNews.news_items[idx], idx, Len(aiNews.news_items))

\* record of one twitterUserClient.v2.tweet call: the text posted, whether the
\* length warning was logged for it, and the id a successful call returns
\* (its position in the run's sequence of tweet calls)
TweetCall(kind, idx, reply, ok) ==
    [kind |-> kind, idx |-> idx, reply |-> reply, ok |-> ok,
     id |-> IF ok THEN Len(tweets) + 1 ELSE NoId,
     text |-> postedText(tweetText(kind, idx)),
     warned |-> kind = "item" /\ warnsTooLong(tweetText(kind, idx))]

\* faulty variant: the reply option is never set
replyTargetAbsent(prev) == NoId

\* if (previousTweetId) postOptions.reply = { in_reply_to_tweet_id: previousTweetId }
replyTarget(prev) == IF prev # NoId THEN prev ELSE NoId

\* composing the tweet text throws a TypeError, outside the try block:
\* item.hashtags.join(" ") needs an array; in index.js item.title.replace(...)
\* needs a string (part_001 interpolates item.title instead)
composeThrows(v, item) ==
    \/ item.hashtags.t # "array"
    \/ v # "part001" /\ item.title.t # "string"

\* faulty variant: no copy breaks out of the loop on a failure
breaksOnErrorNever(v, idx) == FALSE

\* faulty variant: every copy breaks out of the loop on a failure
breaksOnErrorAlways(v, idx) == TRUE

\* catch block of the loop: the first copy in index.js always breaks, the
\* second one breaks when i === 0, part_001 never breaks
breaksOnError(v, idx) ==
    \/ v = "index1"
    \/ v = "index2" /\ idx = 0

\* faulty variant: the outro is published whatever hasError says
afterLoopAlwaysOutro(err) ==
    /\ pc' = IF variant = "part001" THEN "delayOutro" ELSE "tweetOutro"
    /\ exitCode' = exitCode

\* faulty variant: a failed item publish is thrown on to main after the loop
afterLoopThrowsOnError(err) ==
    IF ~err
    THEN /\ pc' = IF variant = "part001" THEN "delayOutro" ELSE "tweetOutro"
         /\ exitCode' = exitCode
    ELSE mainCatch

\* the code after the for loop, up to its next await
afterLoop(err) ==
    IF ~err
    THEN /\ pc' = IF variant = "part001" THEN "delayOutro" ELSE "tweetOutro"
         /\ exitCode' = exitCode
    ELSE mainReturn

\* faulty variant: part_001 does not wait after the intro
postNewsToTwitter_introNoDelay ==
    /\ pc = "tweetIntro"
    /\ \E ok \in BOOLEAN :
          /\ calls' = Append(calls, Call("tweet", Outcome(ok)))
          /\ tweets' = Append(tweets, TweetCall("intro", 0, NoId, ok))
          /\ IF ok
             THEN /\ previousTweetId' = Len(tweets) + 1
                  /\ pc' = "tweetItem"
                  /\ exitCode' = exitCode
                  /\ thrown' = thrown
             ELSE /\ previousTweetId' = previousTweetId
                  /\ mainCatch
                  /\ thrown' = Error("tweet", "intro")
    /\ i' = 0
    /\ hasError' = FALSE
    /\ settle(Awaited(pc))
    /\ UNCHANGED <<variant, timers, tempFile, artifact, fileName, response,
                   aiNews, env, harnessVars>>

postNewsToTwitter_intro ==
    /\ pc = "tweetIntro"
    /\ \E ok \in BOOLEAN :
          /\ calls' = Append(calls, Call("tweet", Outcome(ok)))
          /\ tweets' = Append(tweets, TweetCall("intro", 0, NoId, ok))
          /\ IF ok
             THEN /\ previousTweetId' = Len(tweets) + 1
                  /\ pc' = IF variant = "part001" THEN "delayIntro" ELSE "tweetItem"
                  /\ exitCode' = exitCode
                  /\ thrown' = thrown
             ELSE /\ previousTweetId' = previousTweetId
                  /\ mainCatch
                  /\ thrown' = Error("tweet", "intro")
    /\ i' = 0
    /\ hasError' = FALSE
    /\ settle(Awaited(pc))
    /\ UNCHANGED <<variant, timers, tempFile, artifact, fileName, response, aiNews,
                   env, harnessVars>>

\* faulty variant: the loop index is not advanced after a successful item
postNewsToTwitter_delayNoIncrement ==
    /\ pc \in {"delayIntro", "delayItem", "delayOutro"}
    /\ pc' = IF pc = "delayOutro" THEN "tweetOutro" ELSE "tweetItem"
    /\ settle(Awaited(pc))
    /\ UNCHANGED <<variant, timers, thrown, exitCode, calls, tempFile, artifact, fileName,
                   response, aiNews, i, previousTweetId, hasError, tweets, env,
                   harnessVars>>

\* a delay that elapsed: its length and how many tweet calls preceded it
Timer(ms) == [ms |-> ms, after |-> Len(tweets)]

\* setTimeout(resolve, 5000) in part_001, setTimeout(resolve, 2000) in index.js
delayMs(v) == IF v = "part001" THEN 5000 ELSE 2000

\* await new Promise((resolve) => setTimeout(resolve, ...))
postNewsToTwitter_delay ==
    /\ pc \in {"delayIntro", "delayItem", "delayOutro"}
    /\ pc' = IF pc = "delayOutro" THEN "tweetOutro" ELSE "tweetItem"
    /\ i' = IF pc = "delayItem" THEN i + 1 ELSE i
    /\ timers' = Append(timers, Timer(delayMs(variant)))
    /\ settle(Awaited(pc))
    /\ UNCHANGED <<variant, thrown, exitCode, calls, tempFile, artifact, fileName,
                   response, aiNews, previousTweetId, hasError, tweets,
                   env, harnessVars>>

postNewsToTwitter_composeThrows ==
    /\ pc = "tweetItem"
    /\ composeThrows(variant, aiNews.news_items[i + 1])
    /\ mainCatch
    /\ thrown' = Error("postNewsToTwitter", "TypeError")
    /\ UNCHANGED <<variant, pending, timers, calls, tempFile, artifact, fileName, response,
                   aiNews, i, previousTweetId, hasError, tweets, env, harnessVars>>

\* faulty variant: the catch block of the loop does not set hasError
postNewsToTwitter_itemForgetsError ==
    /\ pc = "tweetItem"
    /\ ~composeThrows(variant, aiNews.news_items[i + 1])
    /\ \E ok \in BOOLEAN :
          /\ calls' = Append(calls, Call("tweet", Outcome(ok)))
          /\ tweets' = Append(tweets,
                 TweetCall("item", i + 1, replyTarget(previousTweetId), ok))
          /\ previousTweetId' = IF ok THEN Len(tweets) + 1 ELSE previousTweetId
          /\ hasError' = hasError
          /\ IF ok /\ i < Len(aiNews.news_items) - 1
             THEN pc' = "delayItem" /\ i' = i /\ exitCode' = exitCode
             ELSE /\ i' = i + 1
                  /\ IF ~ok /\ i + 1 < Len(aiNews.news_items)
                     THEN pc' = "tweetItem" /\ exitCode' = exitCode
                     ELSE afterLoop(hasError)
    /\ settle(Awaited(pc))
    /\ UNCHANGED <<variant, timers, thrown, tempFile, artifact, fileName,
                   response, aiNews, env, harnessVars>>

postNewsToTwitter_item ==
    /\ pc = "tweetItem"
    /\ ~composeThrows(variant, aiNews.news_items[i + 1])
    /\ \E ok \in BOOLEAN :
          /\ calls' = Append(calls, Call("tweet", Outcome(ok)))
          /\ tweets' = Append(tweets,
                 TweetCall("item", i + 1, replyTarget(previousTweetId), ok))
          /\ IF ok
             THEN /\ previousTweetId' = Len(tweets) + 1
                  /\ hasError' = hasError
                  /\ IF i < Len(aiNews.news_items) - 1
                     THEN pc' = "delayItem" /\ i' = i /\ exitCode' = exitCode
                     ELSE i' = i + 1 /\ afterLoop(hasError)
             ELSE /\ previousTweetId' = previousTweetId
                  /\ hasError' = TRUE
                  /\ IF breaksOnError(variant, i)
                     THEN i' = i /\ afterLoop(TRUE)
                     ELSE /\ i' = i + 1
                          /\ IF i + 1 < Len(aiNews.news_items)
                             THEN pc' = "tweetItem" /\ exitCode' = exitCode
                             ELSE afterLoop(TRUE)
    /\ settle(Awaited(pc))
    /\ UNCHANGED <<variant, timers, thrown, tempFile, artifact, fileName, response, aiNews,
                   env, harnessVars>>

\* faulty variant: a failed outro publish is logged and swallowed
postNewsToTwitter_outroSwallows ==
    /\ pc = "tweetOutro"
    /\ \E ok \in BOOLEAN :
          /\ calls' = Append(calls, Call("tweet", Outcome(ok)))
          /\ tweets' = Append(tweets,
                 TweetCall("outro", 0, replyTarget(previousTweetId), ok))
          /\ previousTweetId' = IF ok THEN Len(tweets) + 1 ELSE previousTweetId
    /\ mainReturn
    /\ settle(Awaited(pc))
    /\ UNCHANGED <<variant, timers, thrown, tempFile, artifact, fileName, response,
                   aiNews, i, hasError, env, harnessVars>>

postNewsToTwitter_outro ==
    /\ pc = "tweetOutro"
    /\ \E ok \in BOOLEAN :
          /\ calls' = Append(calls, Call("tweet", Outcome(ok)))
          /\ tweets' = Append(tweets,
                 TweetCall("outro", 0, replyTarget(previousTweetId), ok))
          /\ IF ok
             THEN /\ previousTweetId' = Len(tweets) + 1
                  /\ mainReturn
                  /\ thrown' = thrown
             ELSE /\ previousTweetId' = previousTweetId
                  /\ mainCatch
                  /\ thrown' = Error("tweet", "outro")
    /\ settle(Awaited(pc))
    /\ UNCHANGED <<variant, timers, tempFile, artifact, fileName, response, aiNews, i,
                   hasError, env, harnessVars>>

-----------------------------------------------------------------------------
(* deleteFile, called from the finally block of part_001's main *)

\* ai.files.delete({ name: fileName }) as the run records it
DeleteCall(name, result) == [op |-> "delete", result |-> result, name |-> name]

\* faulty variant: a failed delete ends the run with a failure
deleteFileFatal ==
    /\ pc = "deleteFile"
    /\ fileName # ""
    /\ \E ok \in BOOLEAN :
          /\ calls' = Append(calls, DeleteCall(fileName, Outcome(ok)))
          /\ artifact' = IF ok /\ fileName = uploadResultName
                         THEN FALSE ELSE artifact
          /\ exitCode' = IF ok THEN 0 ELSE 1
    /\ pc' = "exited"
    /\ settle(Awaited(pc))
    /\ UNCHANGED <<variant, timers, thrown, tempFile, fileName, response, aiNews, i,
                   previousTweetId, hasError, tweets, env, harnessVars>>

deleteFile ==
    /\ pc = "deleteFile"
    /\ IF fileName = ""
       THEN UNCHANGED <<calls, artifact, pending>>
       ELSE \E ok \in BOOLEAN :
               /\ calls' = Append(calls, DeleteCall(fileName, Outcome(ok)))
               /\ artifact' = IF ok /\ fileName = uploadResultName
                              THEN FALSE ELSE artifact
               /\ settle("delete")
    /\ pc' = "exited"
    /\ exitCode' = 0
    /\ UNCHANGED <<variant, timers, thrown, tempFile, fileName, response, aiNews, i,
                   previousTweetId, hasError, tweets, env, harnessVars>>

-----------------------------------------------------------------------------
(* Starting a call or a timer *)

\* the statement at position p starts something: deleteFile returns at once
\* when fileName is "", and an item whose text cannot be composed throws
\* before twitterUserClient.v2.tweet is called
starts(p) ==
    /\ p \in AwaitPositions
    /\ p = "deleteFile" => fileName # ""
    /\ p = "tweetItem" => ~composeThrows(variant, aiNews.news_items[i + 1])

\* faulty variant: fs.unlink(tempFilePath) after the upload is not awaited,
\* so uploadHtmlToGemini returns while the unlink is still running
issueUnlinkNotAwaited ==
    /\ starts(pc)
    /\ Awaited(pc) \notin pending
    /\ pending' = pending \cup {Awaited(pc)}
    /\ pc' = IF pc = "unlink" THEN "generate" ELSE pc
    /\ UNCHANGED <<variant, timers, thrown, exitCode, calls, tempFile, artifact,
                   fileName, response, aiNews, i, previousTweetId, hasError,
                   tweets, env, harnessVars>>

\* await f(...): the call (or the timer) is started and the async function is
\* suspended until it has ended; the step that ends it is the action of that
\* call
issue ==
    /\ starts(pc)
    /\ Awaited(pc) \notin pending
    /\ pending' = pending \cup {Awaited(pc)}
    /\ UNCHANGED <<variant, pc, timers, thrown, exitCode, calls, tempFile,
                   artifact, fileName, response, aiNews, i, previousTweetId,
                   hasError, tweets, env, harnessVars>>

-----------------------------------------------------------------------------
(* One run of main() *)

\* deleteAllFiles and hello.js have not been started
ToolsIdle ==
    /\ listing = <<>>
    /\ page = 0
    /\ fileIdx = 0
    /\ log = <<>>
    /\ envIdx = 0

\* the variables of a run before its first step, suspended at position p
InitRun(p) ==
    /\ pc = p
    /\ exitCode = "none"
    /\ calls = <<>>
    /\ tempFile = FALSE
    /\ artifact = FALSE
    /\ fileName = ""
    /\ response = [kind |-> "none"]
    /\ aiNews = Undefined
    /\ i = 0
    /\ previousTweetId = NoId
    /\ hasError = FALSE
    /\ tweets = <<>>
    /\ thrown = NoError
    /\ timers = <<>>
    /\ pending = {}

\* the harnesses are not in use
HarnessesIdle ==
    /\ linkIn = Undefined
    /\ linkOut = Undefined
    /\ tagsIn = Undefined
    /\ tagsOut = Undefined
    /\ textIn = <<>>
    /\ textOut = Undefined
    /\ ToolsIdle

\* node <file> for each of the script files, in any environment
Init ==
    /\ InitRun("load")
    /\ variant \in Variants
    /\ env \in Environments
    /\ HarnessesIdle

\* composing an item never throws in part_001 (its extractor leaves every
\* item with an array of hashtags), so that step is no step of these runs
Next ==
    \/ load
    \/ checkCredentials
    \/ issue
    \/ fetchHtml
    \/ uploadHtmlToGemini_writeFile
    \/ uploadHtmlToGemini_upload
    \/ uploadHtmlToGemini_unlink
    \/ uploadHtmlToGemini_cleanupAccess
    \/ uploadHtmlToGemini_cleanupUnlink
    \/ extractAiNewsWithGemini
    \/ postNewsToTwitter_intro
    \/ postNewsToTwitter_delay
    \/ postNewsToTwitter_item
    \/ postNewsToTwitter_outro
    \/ deleteFile

Spec == Init /\ [][Next]_vars

-----------------------------------------------------------------------------
(* The copies of the pipeline, each run as a file of its own *)

\* a copy compiles when it is alone in its file, so its run starts at the
\* credential checks
InitCopies ==
    /\ InitRun("start")
    /\ variant \in Copies
    /\ env \in Environments
    /\ HarnessesIdle

NextCopies ==
    \/ checkCredentials
    \/ issue
    \/ fetchHtml
    \/ uploadHtmlToGemini_writeFile
    \/ uploadHtmlToGemini_upload
    \/ uploadHtmlToGemini_unlink
    \/ uploadHtmlToGemini_cleanupAccess
    \/ uploadHtmlToGemini_cleanupUnlink
    \/ extractAiNewsWithGemini
    \/ postNewsToTwitter_intro
    \/ postNewsToTwitter_delay
    \/ postNewsToTwitter_composeThrows
    \/ postNewsToTwitter_item
    \/ postNewsToTwitter_outro
    \/ deleteFile

SpecCopies == InitCopies /\ [][NextCopies]_vars

-----------------------------------------------------------------------------
(* Link normalisation applied once and then once more to its own result *)

LinkAlphabet == {"/", "h", "a"}

LinkInputs == {Undefined} \cup {Str(q) : q \in SeqUpTo(LinkAlphabet, MaxLinkLen)}

InitLink ==
    /\ InitRun("link0")
    /\ variant \in Copies
    /\ env = AllCredentials
    /\ linkIn \in LinkInputs
    /\ linkOut = linkIn
    /\ tagsIn = Undefined
    /\ tagsOut = Undefined
    /\ textIn = <<>>
    /\ textOut = Undefined
    /\ ToolsIdle

applyNormalizeLink ==
    /\ pc \in {"link0", "link1"}
    /\ linkOut' = normalizeLink(linkOut)
    /\ pc' = IF pc = "link0" THEN "link1" ELSE "link2"
    /\ UNCHANGED <<variant, pending, timers, thrown, exitCode, calls, tempFile, artifact, fileName,
                   response, aiNews, i, previousTweetId, hasError, tweets, env,
                   linkIn, tagsIn, tagsOut, textIn, textOut, toolVars>>

NextLink == applyNormalizeLink

SpecLink == InitLink /\ [][NextLink]_vars

-----------------------------------------------------------------------------
(* Hashtag normalisation of part_001 applied once and then once more *)

TagAlphabet == {"#", "x"}

HashtagInputs ==
    {Undefined} \cup
    {Arr(q) : q \in SeqUpTo(SeqUpTo(TagAlphabet, MaxTagLen), MaxTags)}

InitHashtags ==
    /\ InitRun("tags0")
    /\ variant = "part001"
    /\ env = AllCredentials
    /\ linkIn = Undefined
    /\ linkOut = Undefined
    /\ tagsIn \in HashtagInputs
    /\ tagsOut = tagsIn
    /\ textIn = <<>>
    /\ textOut = Undefined
    /\ ToolsIdle

applyNormalizeHashtags ==
    /\ pc \in {"tags0", "tags1"}
    /\ tagsOut' = normalizeHashtags(tagsOut)
    /\ pc' = IF pc = "tags0" THEN "tags1" ELSE "tags2"
    /\ UNCHANGED <<variant, pending, timers, thrown, exitCode, calls, tempFile, artifact, fileName,
                   response, aiNews, i, previousTweetId, hasError, tweets, env,
                   linkIn, linkOut, tagsIn, textIn, textOut, toolVars>>

NextHashtags == applyNormalizeHashtags

SpecHashtags == InitHashtags /\ [][NextHashtags]_vars

-----------------------------------------------------------------------------
(* Cleaning and parsing applied to response texts built from a body, optional *)
(* fence markers and whitespace                                              *)

Pads == SeqUpTo(JsWhitespace, MaxPad)

\* <<pad, leading marker, pad, body, pad, trailing marker, pad>>
TextInputs ==
    {<<p1, lead, p2, body, p3, trail, p4>> :
        p1 \in Pads, lead \in {<<>>, FenceJson}, p2 \in Pads,
        body \in JsonBodies \cup NonJsonBodies,
        p3 \in Pads, trail \in {<<>>, Fence}, p4 \in Pads}

RECURSIVE concat(_)
concat(parts) ==
    IF parts = <<>> THEN <<>> ELSE Head(parts) \o concat(Tail(parts))

InitText ==
    /\ InitRun("text0")
    /\ variant = "part001"
    /\ env = AllCredentials
    /\ linkIn = Undefined
    /\ linkOut = Undefined
    /\ tagsIn = Undefined
    /\ tagsOut = Undefined
    /\ textIn \in TextInputs
    /\ textOut = Undefined
    /\ ToolsIdle

applyCleanAndParse ==
    /\ pc = "text0"
    /\ textOut' = jsonParse(cleanResponseText(concat(textIn)))
    /\ pc' = "text1"
    /\ UNCHANGED <<variant, pending, timers, thrown, exitCode, calls, tempFile, artifact, fileName,
                   response, aiNews, i, previousTweetId, hasError, tweets, env,
                   linkIn, linkOut, tagsIn, tagsOut, textIn, toolVars>>

NextText == applyCleanAndParse

SpecText == InitText /\ [][NextText]_vars

-----------------------------------------------------------------------------
(* deleteAllFiles of part_001, called on its own (the call at the end of    *)
(* the script is commented out)                                             *)

MaxPages == 3        \* most pages a listing has
MaxPageSize == 2     \* most files a page has

\* the name of the k-th file of page p
FileName(p, k) == <<p, k>>

\* what ai.files.list may hold: at least one page, every page with
\* 0..MaxPageSize files
Listings ==
    UNION {{[p \in 1..n |-> [k \in 1..sz[p] |-> FileName(p, k)]] :
               sz \in [1..n -> 0..MaxPageSize]} :
           n \in 1..MaxPages}

InitDeleteAll ==
    /\ InitRun("list")
    /\ variant = "part001"
    /\ env = AllCredentials
    /\ linkIn = Undefined
    /\ linkOut = Undefined
    /\ tagsIn = Undefined
    /\ tagsOut = Undefined
    /\ textIn = <<>>
    /\ textOut = Undefined
    /\ listing \in Listings
    /\ page = 0
    /\ fileIdx = 0
    /\ log = <<>>
    /\ envIdx = 0

\* the synchronous code that follows an await of deleteAllFiles, standing
\* before file k of page p: the next file of the for loop, or
\* pager.hasNextPage() and the next page, or the statement after the while
\* loop, console.log("Deleted Files:", count), which reads the undeclared
\* identifier count and throws a ReferenceError
deleteAllFiles_continue(p, k) ==
    IF k <= Len(listing[p])
    THEN pc' = "deleteListed" /\ thrown' = thrown
    ELSE IF p < Len(listing)
    THEN pc' = "nextPage" /\ thrown' = thrown
    ELSE pc' = "returned" /\ thrown' = Error("deleteAllFiles", "ReferenceError")

\* const pager = await ai.files.list(...); let page = pager.page
deleteAllFiles_list ==
    /\ pc = "list"
    /\ \E ok \in BOOLEAN :
          /\ calls' = Append(calls, Call("list", Outcome(ok)))
          /\ IF ok
             THEN /\ page' = 1
                  /\ fileIdx' = 1
                  /\ deleteAllFiles_continue(1, 1)
             ELSE /\ UNCHANGED <<page, fileIdx>>
                  /\ pc' = "returned"
                  /\ thrown' = Error("ai.files.list", "failed")
    /\ settle(Awaited(pc))
    /\ UNCHANGED <<variant, timers, exitCode, tempFile, artifact, fileName,
                   response, aiNews, i, previousTweetId, hasError, tweets, env,
                   linkIn, linkOut, tagsIn, tagsOut, textIn, textOut,
                   listing, log, envIdx>>

\* await ai.files.delete({ name: file.name }), not inside any try block
deleteAllFiles_delete ==
    /\ pc = "deleteListed"
    /\ \E ok \in BOOLEAN :
          /\ calls' = Append(calls,
                 DeleteCall(listing[page][fileIdx], Outcome(ok)))
          /\ IF ok
             THEN /\ fileIdx' = fileIdx + 1
                  /\ deleteAllFiles_continue(page, fileIdx + 1)
             ELSE /\ fileIdx' = fileIdx
                  /\ pc' = "returned"
                  /\ thrown' = Error("ai.files.delete", "failed")
    /\ settle(Awaited(pc))
    /\ UNCHANGED <<variant, timers, exitCode, tempFile, artifact, fileName,
                   response, aiNews, i, previousTweetId, hasError, tweets, env,
                   linkIn, linkOut, tagsIn, tagsOut, textIn, textOut,
                   listing, page, log, envIdx>>

\* page = await pager.nextPage()
deleteAllFiles_nextPage ==
    /\ pc = "nextPage"
    /\ \E ok \in BOOLEAN :
          /\ calls' = Append(calls, Call("nextPage", Outcome(ok)))
          /\ IF ok
             THEN /\ page' = page + 1
                  /\ fileIdx' = 1
                  /\ deleteAllFiles_continue(page + 1, 1)
             ELSE /\ UNCHANGED <<page, fileIdx>>
                  /\ pc' = "returned"
                  /\ thrown' = Error("pager.nextPage", "failed")
    /\ settle(Awaited(pc))
    /\ UNCHANGED <<variant, timers, exitCode, tempFile, artifact, fileName,
                   response, aiNews, i, previousTweetId, hasError, tweets, env,
                   linkIn, linkOut, tagsIn, tagsOut, textIn, textOut,
                   listing, log, envIdx>>

\* deleteAllFiles(), called without await or catch at the end of the script:
\* the promise it returns is rejected and nothing handles the rejection, so
\* node (version 20 in the workflow) ends the process with code 1
deleteAllFiles_unhandledRejection ==
    /\ pc = "returned"
    /\ thrown # NoError
    /\ pc' = "exited"
    /\ exitCode' = 1
    /\ UNCHANGED <<variant, pending, timers, thrown, calls, tempFile, artifact,
                   fileName, response, aiNews, i, previousTweetId, hasError,
                   tweets, env, harnessVars>>

NextDeleteAll ==
    \/ issue
    \/ deleteAllFiles_list
    \/ deleteAllFiles_delete
    \/ deleteAllFiles_nextPage
    \/ deleteAllFiles_unhandledRejection

SpecDeleteAll == InitDeleteAll /\ [][NextDeleteAll]_vars

-----------------------------------------------------------------------------
(* src/hello.js *)

\* const envs = [...]
envs ==
    <<"GEMINI_API_KEY", "TWITTER_API_KEY", "TWITTER_API_SECRET",
      "TWITTER_ACCESS_TOKEN", "TWITTER_ACCESS_TOKEN_SECRET">>

MaxSecretLen == 2    \* longest value of a credential variable
MaxLongSecrets == 2  \* most variables whose value has more than one character

SecretAlphabet == {"k", "s"}

\* a variable is unset or holds a text of up to MaxSecretLen characters
SecretValues ==
    {Undefined} \cup {Str(q) : q \in SeqUpTo(SecretAlphabet, MaxSecretLen)}

\* process.env of a run of hello.js: every variable is unset, empty or set,
\* and up to MaxLongSecrets of them hold more than one character
HelloEnvironments ==
    {e \in [CredentialNames -> SecretValues] :
        Cardinality({n \in CredentialNames :
                        e[n] # Undefined /\ Len(e[n].v) > 1}) <= MaxLongSecrets}

\* one console.log call: its first argument and its second one
Line(label, value) == [label |-> label, value |-> value]

\* process.env as console.log shows it: the variables that are set
printedEnv(e) ==
    [n \in {m \in CredentialNames : e[m] # Undefined} |-> e[n].v]

\* faulty variant: only the first character of a value is logged
secretLinesFirstOnly(secret) ==
    [j \in 1..(IF secret = <<>> THEN 0 ELSE 1) |-> Line("Key ==== ", secret[j])]

\* const secretSplit = secret.split(""); for (...) console.log("Key ==== ",
\* secretSplit[i])
secretLines(secret) ==
    [j \in 1..Len(secret) |-> Line("Key ==== ", secret[j])]

InitHello ==
    /\ InitRun("hello")
    /\ variant = "part001"
    /\ env \in HelloEnvironments
    /\ linkIn = Undefined
    /\ linkOut = Undefined
    /\ tagsIn = Undefined
    /\ tagsOut = Undefined
    /\ textIn = <<>>
    /\ textOut = Undefined
    /\ ToolsIdle

\* console.log("Hello"); console.log("All Envs ==== ", process.env)
hello_start ==
    /\ pc = "hello"
    /\ log' = <<Line("Hello", ""), Line("All Envs ==== ", printedEnv(env))>>
    /\ envIdx' = 1
    /\ pc' = "helloLoop"
    /\ UNCHANGED <<variant, pending, timers, thrown, exitCode, calls, tempFile, artifact,
                   fileName, response, aiNews, i, previousTweetId, hasError,
                   tweets, env, linkIn, linkOut, tagsIn, tagsOut, textIn,
                   textOut, listing, page, fileIdx>>

\* one iteration of for (const env of envs): secret.split throws a
\* TypeError when the variable is unset, and nothing catches it
hello_iteration ==
    /\ pc = "helloLoop"
    /\ LET name == envs[envIdx]
           secret == env[name]
       IN IF secret = Undefined
          THEN /\ log' = Append(log, Line("Environment Variable: ", name))
               /\ envIdx' = envIdx
               /\ thrown' = Error("hello.js", "TypeError")
               /\ pc' = "exited"
               /\ exitCode' = 1
          ELSE /\ log' = Append(log, Line("Environment Variable: ", name))
                            \o secretLines(secret.v)
               /\ envIdx' = envIdx + 1
               /\ thrown' = thrown
               /\ IF envIdx < Len(envs)
                  THEN pc' = pc /\ exitCode' = exitCode
                  ELSE pc' = "exited" /\ exitCode' = 0
    /\ UNCHANGED <<variant, pending, timers, calls, tempFile, artifact, fileName,
                   response, aiNews, i, previousTweetId, hasError, tweets, env,
                   linkIn, linkOut, tagsIn, tagsOut, textIn, textOut,
                   listing, page, fileIdx>>

NextHello ==
    \/ hello_start
    \/ hello_iteration

SpecHello == InitHello /\ [][NextHello]_vars

-----------------------------------------------------------------------------
(* Vocabulary of the properties *)

\* the run's tweet calls of one kind, in the order they were issued
TweetsOfKind(kind) == SelectSeq(tweets, LAMBDA c : c.kind = kind)

\* id returned by the most recent successful tweet call among the first n
RECURSIVE LastOkId(_)
LastOkId(n) ==
    IF n = 0 THEN NoId
    ELSE IF tweets[n].ok THEN tweets[n].id ELSE LastOkId(n - 1)

AllTweetsOk == \A j \in 1..Len(tweets) : tweets[j].ok

SomeItemFailed == \E j \in 1..Len(tweets) : tweets[j].kind = "item" /\ ~tweets[j].ok

CallsOf(op) == SelectSeq(calls, LAMBDA c : c.op = op)

UploadSucceeded == \E j \in 1..Len(calls) : calls[j].op = "upload" /\ callOk(calls[j])

FetchFailed == \E j \in 1..Len(calls) : calls[j].op = "fetch" /\ ~callOk(calls[j])

-----------------------------------------------------------------------------
(* What the script files do that never get to publish *)

\* node index.js ends at compilation in every environment: exit code 1, no
\* credential check, no call
IndexDoesNotCompile ==
    variant = "index" =>
        /\ pc \in {"load", "exited"}
        /\ calls = <<>>
        /\ tweets = <<>>
        /\ pc = "exited" =>
              exitCode = 1 /\ thrown = Error("node", "SyntaxError")

\* part_000 issues the fetch and nothing else, and never ends with code 0;
\* after a page was fetched it ends with the ReferenceError
Part000EndsAfterFetch ==
    variant = "part000" =>
        /\ Len(calls) <= 1
        /\ tweets = <<>>
        /\ pc = "exited" => exitCode = 1
        /\ (pc = "exited" /\ calls = <<Call("fetch", "status200")>>) =>
              thrown = Error("extractAiNewsWithGemini", "ReferenceError")

\* part_000 fetched the page with every credential set and ended
Part000Witness ==
    /\ variant = "part000"
    /\ env = AllCredentials
    /\ pc = "exited"
    /\ calls = <<Call("fetch", "status200")>>
    /\ exitCode = 1

-----------------------------------------------------------------------------
(* C1: for every bundle with k >= 1 items, when every publish call          *)
(* succeeds, a finished run has issued exactly k + 2 publish calls in the   *)
(* order intro, item 1..k, outro; the intro has no reply target and every   *)
(* later call replies to the id returned by the call just before it.        *)
C1_FullThreadOfKPlus2 ==
    (pc = "exited" /\ hasNews(aiNews) /\ AllTweetsOk) =>
        LET k == Len(aiNews.news_items) IN
        /\ Len(tweets) = k + 2
        /\ tweets[1].kind = "intro" /\ tweets[1].reply = NoId
        /\ \A j \in 1..k : tweets[j + 1].kind = "item" /\ tweets[j + 1].idx = j
        /\ tweets[k + 2].kind = "outro"
        /\ \A j \in 2..(k + 2) : tweets[j].reply = tweets[j - 1].id

\* the same statement restricted to part_001, where it holds
C1_FullThreadPart001 ==
    variant = "part001" => C1_FullThreadOfKPlus2

-----------------------------------------------------------------------------
(* C2: if the publish call of at least one item failed, no outro publish    *)
(* call is issued in that run, in any of the three copies.                  *)
C2_NoOutroAfterItemFailure ==
    SomeItemFailed => TweetsOfKind("outro") = <<>>

\* a run has ended in which an item failed and the last item then succeeded
C2_Witness ==
    /\ pc = "exited"
    /\ SomeItemFailed
    /\ tweets[Len(tweets)].kind = "item"
    /\ tweets[Len(tweets)].ok
    /\ tweets[Len(tweets)].idx = Len(aiNews.news_items)

-----------------------------------------------------------------------------
(* C3: in part_001, once the upload has succeeded, the remote delete call   *)
(* of deleteFile has been issued by the time the process has terminated,    *)
(* on every exit path.                                                      *)
C3_ReleaseOnEveryExit ==
    (variant = "part001" /\ pc = "exited" /\ UploadSucceeded) =>
        CallsOf("delete") # <<>>

-----------------------------------------------------------------------------
(* C4: in part_001, after a successful intro, the items are attempted once  *)
(* each in item order whatever fails; once the loop is over all k items     *)
(* have been attempted and previousTweetId is the id of the last successful *)
(* item, or of the intro when no item succeeded.                            *)
LoopIsOver ==
    \/ pc \in {"delayOutro", "tweetOutro"}
    \/ pc \in {"deleteFile", "exited"} /\ hasError

C4_ContinuePastFailures ==
    (variant = "part001" /\ tweets # <<>> /\ tweets[1].ok) =>
        LET items == TweetsOfKind("item") IN
        /\ \A j \in 1..Len(items) : items[j].idx = j
        /\ Len(items) <= Len(aiNews.news_items)
        /\ LoopIsOver =>
              /\ Len(items) = Len(aiNews.news_items)
              /\ previousTweetId = LastOkId(1 + Len(items))
              /\ previousTweetId # NoId

\* three items, the second failed, the first and the third succeeded
C4_Witness ==
    /\ variant = "part001"
    /\ pc = "deleteFile"
    /\ Len(tweets) = 4
    /\ tweets[2].ok /\ ~tweets[3].ok /\ tweets[4].ok
    /\ previousTweetId = tweets[4].id

-----------------------------------------------------------------------------
(* C5: every item publish call and the outro publish call carries as reply  *)
(* target the id of the most recent successful post of the run, never an    *)
(* absent target; a failed publish leaves previousTweetId unchanged.        *)
C5_ReplyToLastSuccess ==
    /\ \A j \in 2..Len(tweets) :
          /\ tweets[j].reply # NoId
          /\ tweets[j].reply = LastOkId(j - 1)
    /\ (tweets # <<>> /\ pc # "exited") => previousTweetId = LastOkId(Len(tweets))

\* a publish call was issued after a failed item publish
C5_Witness ==
    \E j \in 2..Len(tweets) :
        /\ ~tweets[j - 1].ok
        /\ tweets[j].reply # NoId
        /\ tweets[j].reply < j - 1

-----------------------------------------------------------------------------
(* C6: when fetchHtml fails, the run aborts: no upload, no generative call  *)
(* and no publish call is issued and the process exits with a non-zero code.*)
C6_FetchFailureAborts ==
    FetchFailed =>
        /\ pc = "exited"
        /\ exitCode = 1
        /\ Len(calls) = 1
        /\ tweets = <<>>

C6_Witness ==
    /\ pc = "exited"
    /\ calls = <<Call("fetch", "otherStatus")>>

-----------------------------------------------------------------------------
(* C7: in all three copies an extraction failure (generative call fails,    *)
(* text does not parse, or intro/outro/news_items missing) is fatal: no     *)
(* publish call is issued and the process exits with a non-zero code.       *)
C7_ExtractionFailureFatal ==
    extractThrows(response) =>
        /\ tweets = <<>>
        /\ pc = "exited"
        /\ exitCode = 1

-----------------------------------------------------------------------------
(* C8: every bundle extractAiNewsWithGemini returns has a non-empty intro,  *)
(* a non-empty outro and a news_items sequence; a response lacking one of   *)
(* them yields no bundle and no publish call.                               *)
C8_NoPartialBundle ==
    /\ aiNews.t = "object" =>
          /\ aiNews.intro.t = "string" /\ aiNews.intro.v # <<>>
          /\ aiNews.outro.t = "string" /\ aiNews.outro.v # <<>>
          /\ response.news_items.t = "array"
          /\ DOMAIN aiNews.news_items = 1..Len(aiNews.news_items)
    /\ (response.kind = "parsed" /\
        (response.intro \in {Undefined, Str(<<>>)}
           \/ response.outro \in {Undefined, Str(<<>>)}
           \/ response.news_items.t # "array")) =>
          /\ aiNews = Undefined
          /\ tweets = <<>>

\* a response that has an intro and an item but an empty outro was rejected
C8_Witness ==
    /\ pc = "exited"
    /\ response.kind = "parsed"
    /\ response.intro = Str(S_I)
    /\ response.outro = Str(<<>>)
    /\ response.news_items = Arr(<<ItemRel>>)
    /\ aiNews = Undefined

-----------------------------------------------------------------------------
(* C9: the returned bundle holds at most TWEET_LIMIT (3) items, namely the  *)
(* first 3 items of the response in their original order, in all copies.    *)
C9_TruncatedToLimit ==
    aiNews.t = "object" =>
        LET got == aiNews.news_items
            sent == response.news_items.v IN
        /\ Len(got) <= 3
        /\ Len(got) = IF Len(sent) < 3 THEN Len(sent) ELSE 3
        /\ \A j \in 1..Len(got) :
              /\ got[j].title = sent[j].title
              /\ got[j].short_description = sent[j].short_description

-----------------------------------------------------------------------------
(* C10: link normalisation rewrites a link that starts with '/' to          *)
(* 'https://techmeme.com' followed by the link, leaves any other link       *)
(* unchanged, and normalising a normalised link changes nothing.            *)
C10_LinkNormalisation ==
    pc \in {"link1", "link2"} =>
        IF linkIn.t = "string" /\ Len(linkIn.v) > 0 /\ Head(linkIn.v) = "/"
        THEN /\ linkOut.t = "string"
             /\ Len(linkOut.v) = 20 + Len(linkIn.v)
             /\ SubSeq(linkOut.v, 1, 20) = TECHMEME_ORIGIN
             /\ SubSeq(linkOut.v, 21, Len(linkOut.v)) = linkIn.v
        ELSE linkOut = linkIn

\* a relative link has been normalised twice
C10_Witness ==
    /\ pc = "link2"
    /\ linkIn = Str(<<"/", "a">>)
    /\ Len(linkOut.v) = 22

-----------------------------------------------------------------------------
(* C11: after the normalisation of part_001 every hashtag starts with '#':  *)
(* one that already did is unchanged, any other gets exactly one '#' in     *)
(* front, number and order are kept, and a second pass changes nothing.     *)
C11_HashtagNormalisation ==
    pc \in {"tags1", "tags2"} =>
        LET before == IF tagsIn.t = "array" THEN tagsIn.v ELSE <<>> IN
        /\ tagsOut.t = "array"
        /\ Len(tagsOut.v) = Len(before)
        /\ \A k \in 1..Len(before) :
              /\ tagsOut.v[k] # <<>>
              /\ Head(tagsOut.v[k]) = "#"
              /\ IF before[k] # <<>> /\ Head(before[k]) = "#"
                 THEN tagsOut.v[k] = before[k]
                 ELSE /\ Len(tagsOut.v[k]) = Len(before[k]) + 1
                      /\ Tail(tagsOut.v[k]) = before[k]

\* <<"x", "#x">> has been normalised twice
C11_Witness ==
    /\ pc = "tags2"
    /\ tagsIn = Arr(<< <<"x">>, <<"#", "x">> >>)
    /\ tagsOut = Arr(<< <<"#", "x">>, <<"#", "x">> >>)

-----------------------------------------------------------------------------
(* C12: a JSON body between a leading FenceJson marker and a trailing Fence  *)
(* marker, with whitespace around any of them, parses to the value the body *)
(* alone parses to; a body without markers is parsed unchanged.             *)
C12_FencesTransparent ==
    pc = "text1" =>
        LET lead == textIn[2]
            body == textIn[4]
            trail == textIn[6] IN
        /\ (lead = FenceJson /\ trail = Fence /\ body \in JsonBodies) =>
              textOut = [t |-> "json", v |-> body]
        /\ (lead = <<>> /\ trail = <<>>) =>
              textOut = IF body \in JsonBodies
                        THEN [t |-> "json", v |-> body]
                        ELSE [t |-> "SyntaxError"]

\* the fenced text  FenceJson \n {} \n Fence  has been parsed to {}
C12_Witness ==
    /\ pc = "text1"
    /\ textIn = << <<>>, FenceJson, <<"\n">>, <<"{", "}">>, <<"\n">>, Fence, <<>> >>
    /\ textOut = [t |-> "json", v |-> <<"{", "}">>]

-----------------------------------------------------------------------------
(* C13: in part_001 failed item publishes do not abort the process: the     *)
(* publisher returns normally, the outro is skipped, the release step runs  *)
(* and the run ends with exit code 0.                                       *)
C13_ItemFailuresNotFatal ==
    (variant = "part001" /\ SomeItemFailed) =>
        /\ pc \in {"tweetItem", "delayItem", "deleteFile", "exited"}
        /\ pc = "exited" =>
              /\ exitCode = 0
              /\ CallsOf("delete") # <<>>

\* a run of part_001 ended after all of its three item publishes had failed
C13_Witness ==
    /\ variant = "part001"
    /\ pc = "exited"
    /\ Len(tweets) = 4
    /\ ~tweets[2].ok /\ ~tweets[3].ok /\ ~tweets[4].ok
    /\ exitCode = 0

-----------------------------------------------------------------------------
(* C14: an item failing the per-item check (title, link or hashtags missing,*)
(* hashtags not an array) is only logged: the extraction still returns the  *)
(* bundle with the item at its position and the publisher issues a publish  *)
(* call for it as for any other item, in all three copies.                  *)
C14_MalformedItemsStillPublished ==
    /\ (response.kind = "parsed" /\ hasExpectedStructure(response)) =>
          /\ aiNews.t = "object"
          /\ \A j \in 1..Len(aiNews.news_items) :
                aiNews.news_items[j].title = response.news_items.v[j].title
    /\ (pc = "exited" /\ hasNews(aiNews) /\ AllTweetsOk) =>
          \A j \in 1..Len(aiNews.news_items) :
              \E n \in 1..Len(tweets) :
                  tweets[n].kind = "item" /\ tweets[n].idx = j

-----------------------------------------------------------------------------
(* C15: whenever uploadHtmlToGemini has finished, by returning or by        *)
(* throwing, the local temporary file no longer exists.                     *)
UploadFinished ==
    /\ CallsOf("writeFile") # <<>>
    /\ pc \notin {"upload", "unlink", "cleanupAccess", "cleanupUnlink"}

C15_TempFileGone ==
    UploadFinished => ~tempFile

\* the calls that look at or delete the temporary file
CleanupCalls == SelectSeq(calls, LAMBDA c : c.op \in {"access", "unlink"})

UploadReturned == CallsOf("generate") # <<>> \/ pc = "generate"

\* C15 as amended: when uploadHtmlToGemini returns an artifact the temporary
\* file no longer exists; when it throws, the file exists only if the last
\* fs.access or fs.unlink call on it failed.
C15_TempFileGoneUnlessCleanupFailed ==
    UploadFinished =>
        /\ UploadReturned => ~tempFile
        /\ tempFile =>
              /\ CleanupCalls # <<>>
              /\ ~callOk(CleanupCalls[Len(CleanupCalls)])

\* the upload failed, the cleanup deleted the file and the function threw
C15_Witness ==
    /\ pc = "exited"
    /\ ~tempFile
    /\ \E j \in 1..Len(calls) : calls[j].op = "upload" /\ ~callOk(calls[j])
    /\ calls[Len(calls)] = Call("unlink", "ok")

-----------------------------------------------------------------------------
(* C16: a failure of the remote delete call in deleteFile is not fatal: the *)
(* run ends with exit code 0 whether the delete succeeded or failed.        *)
C16_DeleteFailureNotFatal ==
    CallsOf("delete") # <<>> =>
        /\ pc = "exited"
        /\ exitCode = 0

\* the remote delete failed, the artifact is still there, and the run ended
C16_Witness ==
    /\ pc = "exited"
    /\ CallsOf("delete") = <<DeleteCall(uploadResultName, "failed")>>
    /\ artifact
    /\ exitCode = 0

-----------------------------------------------------------------------------
(* C17: in part_001 the stages run in the order fetch, upload, extract,     *)
(* publish, release; a stage begins only after the previous one completed,  *)
(* and no call is issued while another call or a delay is outstanding.      *)
StageOf(op) ==
    CASE op = "fetch" -> 1
      [] op \in {"writeFile", "upload", "unlink", "access"} -> 2
      [] op = "generate" -> 3
      [] op = "tweet" -> 4
      [] op = "delete" -> 5

C17_StagesInOrder ==
    variant = "part001" =>
        /\ \A j \in 1..Len(calls) : \A k \in j..Len(calls) :
              StageOf(calls[j].op) <= StageOf(calls[k].op)
        /\ \A k \in 1..Len(calls) :
              /\ StageOf(calls[k].op) = 2 => callOk(calls[1])
              /\ calls[k].op = "generate" =>
                    /\ UploadSucceeded
                    /\ calls[k - 1] = Call("unlink", "ok")
              /\ calls[k].op = "tweet" =>
                    \E j \in 1..(k - 1) : calls[j] = Call("generate", "ok")
              /\ calls[k].op = "delete" => CallsOf("generate") # <<>>
        /\ Cardinality(pending) <= 1
        /\ pending \subseteq {Awaited(pc)}
        /\ pc = "exited" => pending = {}
        /\ pc = "deleteFile" => tweets = <<>> \/ hasError \/ tweets[Len(tweets)].kind = "outro"

\* a run of part_001 that went through fetch, upload, extract and publish
\* has started the remote delete, which is the only thing outstanding
C17_Witness ==
    /\ variant = "part001"
    /\ pc = "deleteFile"
    /\ pending = {"delete"}
    /\ CallsOf("tweet") # <<>>
    /\ calls[Len(calls)].op = "tweet"

-----------------------------------------------------------------------------
(* C18: in part_001, when the bundle has no items, no publish call is       *)
(* issued and the run ends with exit code 0 after the release step.         *)
C18_EmptyBundlePostsNothing ==
    (variant = "part001" /\ aiNews.t = "object" /\ Len(aiNews.news_items) = 0) =>
        /\ tweets = <<>>
        /\ pc \in {"deleteFile", "exited"}
        /\ pc = "exited" =>
              /\ exitCode = 0
              /\ calls[Len(calls)].op = "delete"

C18_Witness ==
    /\ variant = "part001"
    /\ pc = "exited"
    /\ response.kind = "parsed"
    /\ response.news_items = Arr(<<>>)
    /\ aiNews.t = "object"
    /\ exitCode = 0

-----------------------------------------------------------------------------
(* C19: if GEMINI_API_KEY or one of the four Twitter credentials is missing *)
(* at start-up, the process exits with a non-zero code before any call.     *)
C19_MissingCredentialStops ==
    (\E n \in CredentialNames : env[n] \in {Undefined, Str(<<>>)}) =>
        /\ pc \in {"load", "start", "exited"}
        /\ pc = "exited" => exitCode = 1
        /\ calls = <<>>
        /\ tweets = <<>>

\* the file compiled and the run ended at the credential checks because
\* only TWITTER_ACCESS_TOKEN_SECRET was unset
C19_Witness ==
    /\ pc = "exited"
    /\ compiles(variant)
    /\ thrown = NoError
    /\ env = [AllCredentials EXCEPT !["TWITTER_ACCESS_TOKEN_SECRET"] = Undefined]
    /\ exitCode = 1

-----------------------------------------------------------------------------
(* C20: nothing is retried in a run of part_001: at most one fetch, one     *)
(* upload and one generative call, at most one publish call per item, and   *)
(* at most k + 2 publish calls for a bundle of k items.                     *)
C20_NoRetries ==
    variant = "part001" =>
        /\ Len(CallsOf("fetch")) <= 1
        /\ Len(CallsOf("upload")) <= 1
        /\ Len(CallsOf("generate")) <= 1
        /\ \A m, n \in 1..Len(tweets) :
              (tweets[m].kind = tweets[n].kind /\ tweets[m].idx = tweets[n].idx)
                  => m = n
        /\ tweets # <<>> => Len(tweets) <= Len(aiNews.news_items) + 2
        /\ Len(CallsOf("tweet")) = Len(tweets)

\* three items: the second publish failed and was not repeated
C20_Witness ==
    /\ variant = "part001"
    /\ pc = "exited"
    /\ Len(tweets) = 4
    /\ tweets[2].ok /\ ~tweets[3].ok /\ tweets[4].ok
    /\ tweets[4].idx = 3

-----------------------------------------------------------------------------
(* C21: when the upload call fails, uploadHtmlToGemini attempts to delete   *)
(* the temporary file, swallows an error of that deletion, and throws its   *)
(* "Failed to upload file" error made from the upload's error; the run      *)
(* ends with a non-zero exit code, without a generative or publish call.    *)
UploadFailed ==
    \E j \in 1..Len(calls) : calls[j].op = "upload" /\ ~callOk(calls[j])

C21_UploadFailureAborts ==
    UploadFailed =>
        /\ pc \in {"cleanupAccess", "cleanupUnlink", "exited"}
        /\ CallsOf("generate") = <<>>
        /\ CallsOf("tweet") = <<>> /\ tweets = <<>>
        /\ pc \in {"cleanupUnlink", "exited"} =>
              /\ CallsOf("access") # <<>>
              /\ callOk(CallsOf("access")[1]) =>
                    (pc = "exited" <=> calls[Len(calls)].op = "unlink")
        /\ pc = "exited" =>
              /\ exitCode = 1
              /\ thrown = Error("Failed to upload file", "upload")

\* the upload failed and so did the deletion of the temporary file
C21_Witness ==
    /\ pc = "exited"
    /\ UploadFailed
    /\ calls[Len(calls)] = Call("unlink", "failed")
    /\ tempFile
    /\ exitCode = 1

-----------------------------------------------------------------------------
(* C22: uploadHtmlToGemini throws its "Failed to upload file" error only    *)
(* when the write or the upload failed, so that no remote artifact exists   *)
(* when it throws; a failed deletion of the temporary file after a          *)
(* successful upload is not a staging failure.                              *)
C22_StagingFailsWithoutArtifact ==
    thrown.by = "Failed to upload file" =>
        /\ thrown.cause \in {"writeFile", "upload"}
        /\ ~artifact

-----------------------------------------------------------------------------
(* C23: in both copies in src/index.js the remote artifact created by a     *)
(* successful upload has been deleted when the run ends, on the successful  *)
(* path and on the failure paths.                                           *)
C23_IndexArtifactDeleted ==
    (variant \in {"index1", "index2"} /\ pc = "exited") =>
        /\ ~artifact
        /\ UploadSucceeded => CallsOf("delete") # <<>>

-----------------------------------------------------------------------------
(* C24: a failure of the intro or of the outro publish call is not caught   *)
(* in postNewsToTwitter: it reaches main and the run ends with a non-zero   *)
(* exit code; after an intro failure no further publish call is issued,     *)
(* and an outro failure fails the run although every item was published.    *)
IntroFailed == tweets # <<>> /\ ~tweets[1].ok

OutroFailed == \E n \in 1..Len(tweets) : tweets[n].kind = "outro" /\ ~tweets[n].ok

C24_IntroOutroFailuresFatal ==
    /\ IntroFailed =>
          /\ pc = "exited" /\ exitCode = 1
          /\ thrown = Error("tweet", "intro")
          /\ Len(tweets) = 1
    /\ OutroFailed =>
          /\ pc = "exited" /\ exitCode = 1
          /\ thrown = Error("tweet", "outro")
          /\ tweets[Len(tweets)].kind = "outro"
          /\ \A j \in 1..Len(aiNews.news_items) :
                \E n \in 1..Len(tweets) :
                    /\ tweets[n].kind = "item"
                    /\ tweets[n].idx = j
                    /\ tweets[n].ok

\* part_001 published the intro and three items, then the outro failed
C24_Witness ==
    /\ variant = "part001"
    /\ OutroFailed
    /\ Len(tweets) = 5
    /\ exitCode = 1

-----------------------------------------------------------------------------
(* C25: in the first copy in src/index.js, once the publish call of an      *)
(* item has failed no further publish call is issued in the run: the        *)
(* remaining items are not attempted and the outro is not published.        *)
C25_FirstScriptAbortsOnFailure ==
    variant = "index1" =>
        /\ \A n \in 1..Len(tweets) :
              (tweets[n].kind = "item" /\ ~tweets[n].ok) => n = Len(tweets)
        /\ SomeItemFailed =>
              /\ pc = "exited"
              /\ Len(CallsOf("tweet")) = Len(tweets)

\* three items; the publish of the first one failed and the run ended
C25_Witness ==
    /\ variant = "index1"
    /\ pc = "exited"
    /\ hasNews(aiNews) /\ Len(aiNews.news_items) = 3
    /\ Len(tweets) = 2
    /\ ~tweets[2].ok

-----------------------------------------------------------------------------
(* C26: in the second copy in src/index.js a failure of the first item      *)
(* ends the loop with no later item attempted; a failure of a later item    *)
(* leaves the loop running and every following item is still attempted; in  *)
(* both cases the outro is not published.                                   *)
ItemAttempted(j) ==
    \E n \in 1..Len(tweets) : tweets[n].kind = "item" /\ tweets[n].idx = j

C26_SecondScriptBreaksOnFirstItemOnly ==
    (variant = "index2" /\ pc = "exited") =>
        \A n \in 1..Len(tweets) :
            (tweets[n].kind = "item" /\ ~tweets[n].ok) =>
                /\ TweetsOfKind("outro") = <<>>
                /\ tweets[n].idx = 1 => n = Len(tweets)
                /\ tweets[n].idx > 1 =>
                      \A j \in tweets[n].idx..Len(aiNews.news_items) :
                          ItemAttempted(j)

\* the same, for bundles whose items all have a title and a hashtags array
C26_SecondScriptWellFormedItems ==
    (variant = "index2" /\ pc = "exited" /\ hasNews(aiNews)
        /\ \A j \in 1..Len(aiNews.news_items) :
              ~composeThrows(variant, aiNews.news_items[j])) =>
        \A n \in 1..Len(tweets) :
            (tweets[n].kind = "item" /\ ~tweets[n].ok) =>
                /\ TweetsOfKind("outro") = <<>>
                /\ tweets[n].idx = 1 => n = Len(tweets)
                /\ tweets[n].idx > 1 =>
                      \A j \in tweets[n].idx..Len(aiNews.news_items) :
                          ItemAttempted(j)

-----------------------------------------------------------------------------
(* C27: in part_001 a pacing delay elapses between every successful publish *)
(* and the next publish call of the run: intro to first item, item to next  *)
(* item, last item to outro.                                                *)
DelayedAfter(n) ==
    \E t \in 1..Len(timers) : timers[t].after = n /\ timers[t].ms > 0

C27_DelayAfterEverySuccess ==
    variant = "part001" =>
        /\ \A n \in 1..Len(tweets) :
              (tweets[n].ok /\ n < Len(tweets)) => DelayedAfter(n)
        /\ pc \in {"tweetItem", "tweetOutro"} =>
              (tweets[Len(tweets)].ok => DelayedAfter(Len(tweets)))

\* a full thread of part_001 for three items: four delays have elapsed
C27_Witness ==
    /\ variant = "part001"
    /\ pc = "exited"
    /\ Len(tweets) = 5
    /\ AllTweetsOk
    /\ Len(timers) = 4

-----------------------------------------------------------------------------
(* C28: when the composed body of an item is longer than 280 characters,    *)
(* postNewsToTwitter only logs a warning: the publish call is still issued, *)
(* with the untruncated body and the same reply target as for a short body. *)
C28_LongBodyPostedUntruncated ==
    /\ \A n \in 1..Len(tweets) :
          tweets[n].kind = "item" =>
              LET idx == tweets[n].idx
                  body == itemText(variant, aiNews.news_items[idx], idx,
                                   Len(aiNews.news_items))
              IN /\ tweets[n].text = body
                 /\ tweets[n].warned <=> Len(body) > 280
                 /\ tweets[n].reply = LastOkId(n - 1)
    /\ (variant = "part001" /\ pc = "exited" /\ tweets # <<>> /\ thrown = NoError) =>
          \A j \in 1..Len(aiNews.news_items) : ItemAttempted(j)

\* a body of more than 280 characters was posted as a reply, after a warning
C28_Witness ==
    \E n \in 1..Len(tweets) :
        /\ tweets[n].kind = "item"
        /\ tweets[n].warned
        /\ Len(tweets[n].text) > 280
        /\ tweets[n].ok
        /\ tweets[n].reply # NoId

-----------------------------------------------------------------------------
(* C29: the body of every item post is the bold-transformed title, a blank  *)
(* line, the short description, a blank line and the hashtags joined by     *)
(* single spaces, with nothing else but the optional thread-position        *)
(* suffix, in part_001 and in both copies in index.js.                      *)
\* the bold substitution: every letter and digit replaced by its
\* mathematical bold character
boldTransform(str) == replaceAlnum("index1", str)

C29_ItemBodyLayout ==
    \A n \in 1..Len(tweets) :
        tweets[n].kind = "item" =>
            LET idx == tweets[n].idx
                item == aiNews.news_items[idx]
                body == boldTransform(toStr(item.title)) \o NL2
                        \o toStr(item.short_description) \o NL2
                        \o join(item.hashtags.v, <<" ">>)
            IN tweets[n].text \in
                  {body, body \o threadSuffix(idx, Len(aiNews.news_items))}

-----------------------------------------------------------------------------
(* C30: in part_001 a remote delete call is issued only in runs whose       *)
(* upload succeeded, it names the artifact that upload returned, and at     *)
(* most one delete call is issued per run; a run that failed before or      *)
(* during the upload issues no delete call.                                 *)
C30_DeleteOnlyWhatWasUploaded ==
    variant = "part001" =>
        /\ \A k \in 1..Len(calls) :
              calls[k].op = "delete" =>
                  /\ UploadSucceeded
                  /\ calls[k].name = uploadResultName
                  /\ callOk(calls[k]) => ~artifact
        /\ Len(CallsOf("delete")) <= 1
        /\ fileName # "" <=> UploadSucceeded
        /\ (pc = "exited" /\ ~UploadSucceeded) => CallsOf("delete") = <<>>

\* the artifact of the run's upload was deleted at the end of the run
C30_Witness ==
    /\ variant = "part001"
    /\ pc = "exited"
    /\ UploadSucceeded
    /\ CallsOf("delete") = <<DeleteCall(uploadResultName, "ok")>>
    /\ ~artifact

-----------------------------------------------------------------------------
(* C31: in part_001's postNewsToTwitter hasError is false before the loop,  *)
(* becomes true exactly when an item publish fails and is never reset, so   *)
(* that after the loop it is false iff every item publish succeeded; a      *)
(* failed item publish changes hasError only: previousTweetId and the items *)
(* stay as they were.                                                       *)
C31_HasErrorDiscipline ==
    (variant = "part001" /\ tweets # <<>>) =>
        /\ hasError <=> SomeItemFailed
        /\ previousTweetId = LastOkId(Len(tweets))
        /\ aiNews = extractBundle(variant, response)
        /\ pc \in {"delayOutro", "tweetOutro"} =>
              /\ ~hasError
              /\ \A j \in 1..Len(aiNews.news_items) :
                    \E n \in 1..Len(tweets) :
                        /\ tweets[n].kind = "item"
                        /\ tweets[n].idx = j
                        /\ tweets[n].ok

\* the first item failed and the second was published: hasError is still
\* set, and previousTweetId is the id of the second item's tweet
C31_Witness ==
    /\ variant = "part001"
    /\ Len(tweets) = 3
    /\ ~tweets[2].ok /\ tweets[3].ok
    /\ hasError
    /\ previousTweetId = 3
    /\ tweets[3].reply = 1

-----------------------------------------------------------------------------
(* C32: deleteAllFiles issues exactly one delete call for every file of     *)
(* every page of the listing, visits the pages in order, stops after the    *)
(* page for which hasNextPage is false, and then completes without raising  *)
(* an error.                                                                *)
AllCallsOk == \A k \in 1..Len(calls) : callOk(calls[k])

\* the names the delete calls were given, in the order of the calls
DeletedNames ==
    LET D == CallsOf("delete") IN [k \in 1..Len(D) |-> D[k].name]

C32_DeleteAllFilesCompletes ==
    (pc \in {"returned", "exited"} /\ AllCallsOk) =>
        /\ DeletedNames = concat(listing)
        /\ Len(CallsOf("nextPage")) = Len(listing) - 1
        /\ thrown = NoError

\* what the function does do when every call succeeds: one delete call per
\* listed file, page after page, and then the ReferenceError
C32_DeletesEveryFileThenThrows ==
    (pc \in {"returned", "exited"} /\ AllCallsOk) =>
        /\ DeletedNames = concat(listing)
        /\ Len(CallsOf("nextPage")) = Len(listing) - 1
        /\ page = Len(listing)
        /\ thrown = Error("deleteAllFiles", "ReferenceError")
        /\ pending = {}
        /\ pc = "exited" => exitCode = 1

-----------------------------------------------------------------------------
(* C33: hello.js processes the five credential variables in the listed      *)
(* order and writes every character of each value to the log, so that the   *)
(* log tells the values apart; at an unset variable it fails and processes  *)
(* none of the later ones.                                                  *)
\* positions in the log of the lines that announce a variable
NamePositions == {p \in 1..Len(log) : log[p].label = "Environment Variable: "}

\* position of the line announcing the j-th processed variable
NamePosition(j) ==
    CHOOSE p \in NamePositions :
        Cardinality({q \in NamePositions : q <= p}) = j

\* the characters logged for the j-th processed variable
LoggedSecret(j) ==
    LET from == NamePosition(j)
        to == IF j < Cardinality(NamePositions)
              THEN NamePosition(j + 1) - 1 ELSE Len(log)
    IN [x \in 1..(to - from) |-> log[from + x].value]

\* the characters of a variable's value, none if it is unset
toStrOrEmpty(x) == IF x = Undefined THEN <<>> ELSE x.v

\* position in envs of the first unset variable, Len(envs) + 1 if all are set
FirstUnset ==
    LET U == {j \in 1..Len(envs) : env[envs[j]] = Undefined}
    IN IF U = {} THEN Len(envs) + 1
       ELSE CHOOSE j \in U : \A u \in U : j <= u

C33_HelloLogsEverySecret ==
    pc = "exited" =>
        LET m == Cardinality(NamePositions) IN
        /\ m = IF FirstUnset <= Len(envs) THEN FirstUnset ELSE Len(envs)
        /\ \A j \in 1..m :
              /\ log[NamePosition(j)].value = envs[j]
              /\ LoggedSecret(j) = toStrOrEmpty(env[envs[j]])
        /\ IF FirstUnset <= Len(envs)
           THEN thrown = Error("hello.js", "TypeError") /\ exitCode = 1
           ELSE thrown = NoError /\ exitCode = 0

\* all five variables are set, the third to "ks" and the fourth to "sk", and
\* the log holds the five names and the seven characters, those of the two
\* longer values in the order they have in the value
C33_Witness ==
    /\ pc = "exited"
    /\ exitCode = 0
    /\ env = [AllCredentials EXCEPT !["TWITTER_API_SECRET"] = Str(<<"k", "s">>),
                                    !["TWITTER_ACCESS_TOKEN"] = Str(<<"s", "k">>)]
    /\ Len(log) = 14
    /\ log[8] = Line("Key ==== ", "k")
    /\ log[9] = Line("Key ==== ", "s")
    /\ log[11] = Line("Key ==== ", "s")
    /\ log[12] = Line("Key ==== ", "k")

====
